---- MODULE Spec2Model ----
(***************************************************************************)
(* SecureCheck Pro: the scan lifecycle (POST /api/scans, its completion    *)
(* timer, PATCH /api/scans/:id/cancel) and the CVE technology tracker      *)
(* (rateLimitedFetch, fetchCvesForTechnology, checkAllTechnologies,        *)
(* checkSingleTechnology), as state machines.                              *)
(*                                                                         *)
(* Every `await` of a handler on a storage call or on the network is a     *)
(* point where other handlers and timers may run, so each handler is cut   *)
(* into one action per awaited call.  A storage call either takes effect   *)
(* atomically or throws without effect.                                    *)
(***************************************************************************)
EXTENDS Integers, Sequences, FiniteSets, TLC

VARIABLES
    scans,           \* storage: scan id -> SecurityScan
    findings,        \* storage: scan id -> sequence of SecurityFinding
    postPc,          \* POST /api/scans handler of each scan: "none", "start", "done"
    postReply,       \* the last POST /api/scans request for each id to hand out, and its answer
    timerPc,         \* completion callback: "none", "scheduled", "storing", "catch", "done"
    findingsData,    \* the callback's local findingsData
    stored,          \* how many of findingsData the callback has passed to createFinding
    cancelPc,        \* PATCH cancel request: "idle" or "write" (between getScan and updateScan)
    cancelId,        \* the scan id of the cancel request
    now,             \* the wall clock (Date.now(), new Date())
    statusAtFire,    \* history: the status each scan had when its callback fired
    exportCall,      \* GET /api/scans/:id/export: the scan it read and its answer, if any
    technologies,    \* storage: technology id -> Technology
    lastRequestTime, \* module variable of the rate limiter
    procPc,          \* a check: "idle", "mark", "sleep", "request", "write", "unknown",
                     \*          "done" (returned), "aborted" (rejected)
    procKind,        \* "all" (checkAllTechnologies) or "one" (checkSingleTechnology)
    procList,        \* the technologies still to check (the head is the current one)
    procWake,        \* rateLimitedFetch: when the sleeping caller's timer is due
    procResult,      \* what fetchCvesForTechnology returned to the caller
    procRun,         \* history of the check: snapshot, marks, failures
    requests,        \* history: the start time and the caller of every outbound request
    nextFire,        \* when the callback of the weekly setInterval is next due
    call,            \* a call of one of the pure functions: its name and argument
    result           \* what that call returned (undefined before it has)

scanVars == <<scans, findings, postPc, postReply, timerPc, findingsData, stored,
              cancelPc, cancelId, statusAtFire, exportCall>>
techVars == <<technologies, lastRequestTime, procPc, procKind, procList,
              procWake, procResult, procRun, requests, nextFire>>
pureVars == <<call, result>>
vars == <<scanVars, techVars, pureVars, now>>

(***************************************************************************)
(* Optional fields (undefined / null in the source).                       *)
(***************************************************************************)
undefined == <<>>
Some(x) == <<x>>

(***************************************************************************)
(* shared/schema: enumerations and the insert schema.                      *)
(***************************************************************************)
scanStatusEnum == {"pending", "running", "completed", "cancelled", "failed"}
checkTypeEnum == {"ssl_tls", "security_headers", "vulnerability_scan",
                  "owasp_top_10", "port_scan", "dns_security"}
severityEnum == {"critical", "high", "medium", "low", "info"}
scanDepthEnum == {"quick", "standard", "deep"}

\* The targets requests are drawn from, with what z.string().url() and the
\* domain regex make of each.
Targets == {"https://example.com", "example.com", "not a url"}
IsUrl(t) == t \in {"https://example.com"}
IsDomain(t) == t \in {"example.com"}

\* The configurations requests are drawn from.
Configs ==
    { [checkTypes |-> <<"dns_security">>, scanDepth |-> "quick"],
      [checkTypes |-> <<"vulnerability_scan">>, scanDepth |-> "deep"],
      [checkTypes |-> <<"dns_security", "port_scan">>, scanDepth |-> "standard"],
      [checkTypes |-> <<>>, scanDepth |-> "standard"] }

scanConfigSchema(c) ==
    /\ Len(c.checkTypes) >= 1
    /\ \A i \in 1..Len(c.checkTypes) : c.checkTypes[i] \in checkTypeEnum
    /\ c.scanDepth \in scanDepthEnum

insertSecurityScanSchemaAnyConfiguration(target, configuration) ==
    IsUrl(target) \/ IsDomain(target)

insertSecurityScanSchema(target, configuration) ==
    /\ IsUrl(target) \/ IsDomain(target)
    /\ scanConfigSchema(configuration)

(***************************************************************************)
(* security-checks: the finding catalog, the generator and the score.      *)
(***************************************************************************)
T(title, severity) == [title |-> title, severity |-> severity]

sslFindings ==
    << T("TLS 1.0/1.1 Enabled", "high"),
       T("Weak Cipher Suites", "medium"),
       T("Certificate Expiring Soon", "medium"),
       T("Missing OCSP Stapling", "low") >>
headerFindings ==
    << T("Missing Content-Security-Policy", "high"),
       T("Missing X-Frame-Options", "medium"),
       T("Strict-Transport-Security Not Set", "medium"),
       T("X-Content-Type-Options Missing", "low"),
       T("Referrer-Policy Not Configured", "low") >>
vulnerabilityFindings ==
    << T("Outdated Server Software", "critical"),
       T("Directory Listing Enabled", "medium"),
       T("Sensitive Files Exposed", "high") >>
owaspFindings ==
    << T("SQL Injection Vulnerability", "critical"),
       T("Cross-Site Scripting (XSS)", "high"),
       T("Broken Authentication", "high"),
       T("Insecure Direct Object References", "high") >>
portFindings ==
    << T("SSH Port Exposed", "medium"),
       T("Database Port Exposed", "high"),
       T("Unnecessary Services Running", "low") >>
dnsFindings ==
    << T("Missing DNSSEC", "medium"),
       T("SPF Record Missing", "medium"),
       T("DMARC Not Configured", "low") >>

findingsByCheckType ==
    [ ssl_tls |-> sslFindings,
      security_headers |-> headerFindings,
      vulnerability_scan |-> vulnerabilityFindings,
      owasp_top_10 |-> owaspFindings,
      port_scan |-> portFindings,
      dns_security |-> dnsFindings ]

StampedFromDnsCatalog(scanId, target, checkTypes) ==
    [ i \in 1..Len(checkTypes) |->
        [ scanId |-> scanId,
          category |-> checkTypes[i],
          severity |-> dnsFindings[1].severity,
          title |-> dnsFindings[1].title,
          affectedResource |-> target ] ]

\* Every template of the requested check types, stamped as generateFindings
\* stamps it, in the order the two loops visit them.
RECURSIVE Stamped(_, _, _)
Stamped(scanId, target, checkTypes) ==
    IF checkTypes = <<>> THEN <<>>
    ELSE LET checkType == Head(checkTypes)
             templates == findingsByCheckType[checkType]
         IN  [ i \in 1..Len(templates) |->
                 [ scanId |-> scanId,
                   category |-> checkType,
                   severity |-> templates[i].severity,
                   title |-> templates[i].title,
                   affectedResource |-> target ] ]
             \o Stamped(scanId, target, Tail(checkTypes))

RECURSIVE Pick(_, _)
Pick(seq, keep) ==
    IF seq = <<>> THEN <<>>
    ELSE (IF keep[1] THEN <<Head(seq)>> ELSE <<>>)
         \o Pick(Tail(seq), [ i \in 1..(Len(seq) - 1) |-> keep[i + 1] ])

\* Math.random() < findingProbability[depth] keeps or drops each template:
\* with 0 < p < 1 every selection is a possible result, for every depth.
generateFindings(scanId, target, checkTypes, depth) ==
    LET all == Stamped(scanId, target, checkTypes)
    IN  { Pick(all, keep) : keep \in [1..Len(all) -> BOOLEAN] }

severityDeductionsMedium10 ==
    [critical |-> 25, high |-> 15, medium |-> 10, low |-> 3, info |-> 0]

severityDeductions ==
    [critical |-> 25, high |-> 15, medium |-> 8, low |-> 3, info |-> 0]

RECURSIVE totalDeduction(_)
totalDeduction(fs) ==
    IF fs = <<>> THEN 0
    ELSE severityDeductions[Head(fs).severity] + totalDeduction(Tail(fs))

Max(a, b) == IF a >= b THEN a ELSE b
Min(a, b) == IF a <= b THEN a ELSE b

calculateSecurityScoreUnclamped(fs) ==
    IF Len(fs) = 0 THEN 100
    ELSE Min(100, 100 - totalDeduction(fs))

calculateSecurityScoreByFirst(fs) ==
    IF Len(fs) = 0 THEN 100
    ELSE Max(0, Min(100, 100 - Len(fs) * severityDeductions[fs[1].severity]))

calculateSecurityScore(fs) ==
    IF Len(fs) = 0 THEN 100
    ELSE Max(0, Min(100, 100 - totalDeduction(fs)))

(***************************************************************************)
(* storage: scans and findings.                                            *)
(***************************************************************************)
\* The identities randomUUID hands out; SoloIds to the runs of one scan.
ScanIds == {"s1", "s2"}
SoloIds == {"s1"}
MaxCancelRequests == 2
CancelRequests == 1..MaxCancelRequests

\* A partial update: the fields of `updates` replace those of the row.
Merge(row, updates) ==
    [ f \in DOMAIN row |-> IF f \in DOMAIN updates THEN updates[f] ELSE row[f] ]

createScanRunning(id, target, configuration) ==
    [ x \in DOMAIN scans \cup {id} |->
        IF x = id
        THEN [ id |-> id,
               target |-> target,
               status |-> "running",
               configuration |-> configuration,
               initiatedAt |-> now,
               completedAt |-> undefined,
               overallScore |-> undefined ]
        ELSE scans[x] ]

createScan(id, target, configuration) ==
    [ x \in DOMAIN scans \cup {id} |->
        IF x = id
        THEN [ id |-> id,
               target |-> target,
               status |-> "pending",
               configuration |-> configuration,
               initiatedAt |-> now,
               completedAt |-> undefined,
               overallScore |-> undefined ]
        ELSE scans[x] ]

updateScanRestamped(id, updates) ==
    IF id \notin DOMAIN scans THEN scans
    ELSE [scans EXCEPT ![id] = [Merge(scans[id], updates) EXCEPT !.initiatedAt = now]]

updateScanEveryRow(id, updates) ==
    [x \in DOMAIN scans |-> Merge(scans[x], updates)]

updateScan(id, updates) ==
    IF id \notin DOMAIN scans THEN scans
    ELSE [scans EXCEPT ![id] = Merge(scans[id], updates)]

createFindingDropped(finding) == findings
createFindingForEveryScan(finding) ==
    [id \in DOMAIN findings |-> Append(findings[id], finding)]

createFindingAsInfo(finding) ==
    [findings EXCEPT ![finding.scanId] = Append(@, [finding EXCEPT !.severity = "info"])]

createFinding(finding) ==
    [findings EXCEPT ![finding.scanId] = Append(@, finding)]

getFindings(scanId) == findings[scanId]

(***************************************************************************)
(* routes: POST /api/scans.                                                *)
(***************************************************************************)
\* A request and its answer: the status (0 while there is none yet) and the
\* scan of the body, if there is one.
Reply(target, configuration, status, body) ==
    [target |-> target, configuration |-> configuration, status |-> status,
     body |-> body]

\* safeParse, then createScan, which hands out id.  A rejected body gets 400
\* and a createScan that throws gets 500: neither stores anything.
PostScan(id, target, configuration) ==
    /\ id \notin DOMAIN scans
    /\ \/ /\ ~insertSecurityScanSchema(target, configuration)
          /\ postReply' = [postReply EXCEPT ![id] =
                 Some(Reply(target, configuration, 400, undefined))]
          /\ UNCHANGED <<scans, postPc, now>>
       \/ /\ insertSecurityScanSchema(target, configuration)
          /\ postReply' = [postReply EXCEPT ![id] =
                 Some(Reply(target, configuration, 500, undefined))]
          /\ UNCHANGED <<scans, postPc, now>>
       \/ /\ insertSecurityScanSchema(target, configuration)
          /\ scans' = createScan(id, target, configuration)
          /\ postPc' = [postPc EXCEPT ![id] = "start"]
          /\ postReply' = [postReply EXCEPT ![id] =
                 Some(Reply(target, configuration, 0,
                            Some(createScan(id, target, configuration)[id])))]
          /\ now' = now + 1
    /\ UNCHANGED <<findings, timerPc, findingsData, stored, cancelPc,
                   cancelId, statusAtFire>>
    /\ UNCHANGED <<techVars, pureVars, exportCall>>

\* await storage.updateScan(scan.id, { status: "running" }), then setTimeout
\* and the 201 response; when updateScan throws, 500 and no timer.
StartScan(id) ==
    /\ postPc[id] = "start"
    /\ \/ /\ scans' = updateScan(id, [status |-> "running"])
          /\ timerPc' = [timerPc EXCEPT ![id] = "scheduled"]
          /\ postReply' = [postReply EXCEPT ![id][1].status = 201]
       \/ /\ postReply' = [postReply EXCEPT ![id] =
                 Some(Reply(@[1].target, @[1].configuration, 500, undefined))]
          /\ UNCHANGED <<scans, timerPc>>
    /\ postPc' = [postPc EXCEPT ![id] = "done"]
    /\ UNCHANGED <<findings, findingsData, stored, cancelPc, cancelId,
                   statusAtFire, now>>
    /\ UNCHANGED <<techVars, pureVars, exportCall>>

\* The timer fires: generateFindings runs and the loop over findingsData begins.
CompletionFire(id) ==
    /\ timerPc[id] = "scheduled"
    /\ \E fs \in generateFindings(id, scans[id].target,
                                  scans[id].configuration.checkTypes,
                                  scans[id].configuration.scanDepth) :
         findingsData' = [findingsData EXCEPT ![id] = fs]
    /\ stored' = [stored EXCEPT ![id] = 0]
    /\ timerPc' = [timerPc EXCEPT ![id] = "storing"]
    /\ statusAtFire' = [statusAtFire EXCEPT ![id] = scans[id].status]
    /\ UNCHANGED <<scans, findings, postPc, postReply, cancelPc, cancelId, now>>
    /\ UNCHANGED <<techVars, pureVars, exportCall>>

\* await storage.createFinding(finding), for the next finding of the loop.
StoreFinding(id) ==
    /\ timerPc[id] = "storing"
    /\ stored[id] < Len(findingsData[id])
    /\ \/ /\ findings' = createFinding(findingsData[id][stored[id] + 1])
          /\ stored' = [stored EXCEPT ![id] = @ + 1]
          /\ UNCHANGED timerPc
       \/ /\ timerPc' = [timerPc EXCEPT ![id] = "catch"]
          /\ UNCHANGED <<findings, stored>>
    /\ UNCHANGED <<scans, postPc, postReply, findingsData, cancelPc, cancelId,
                   statusAtFire, now>>
    /\ UNCHANGED <<techVars, pureVars, exportCall>>

\* After the loop: calculateSecurityScore and updateScan(completed).
CompleteScan(id) ==
    /\ timerPc[id] = "storing"
    /\ stored[id] = Len(findingsData[id])
    /\ \/ /\ scans' = updateScan(id,
                 [ status |-> "completed",
                   completedAt |-> Some(now),
                   overallScore |-> Some(calculateSecurityScore(findingsData[id])) ])
          /\ timerPc' = [timerPc EXCEPT ![id] = "done"]
          /\ now' = now + 1
       \/ /\ timerPc' = [timerPc EXCEPT ![id] = "catch"]
          /\ UNCHANGED <<scans, now>>
    /\ UNCHANGED <<findings, postPc, postReply, findingsData, stored, cancelPc, cancelId,
                   statusAtFire>>
    /\ UNCHANGED <<techVars, pureVars, exportCall>>

\* catch: updateScan(failed); when that throws too the callback just ends.
FailScan(id) ==
    /\ timerPc[id] = "catch"
    /\ \/ scans' = updateScan(id, [status |-> "failed"])
       \/ UNCHANGED scans
    /\ timerPc' = [timerPc EXCEPT ![id] = "done"]
    /\ UNCHANGED <<findings, postPc, postReply, findingsData, stored, cancelPc, cancelId,
                   statusAtFire, now>>
    /\ UNCHANGED <<techVars, pureVars, exportCall>>

(***************************************************************************)
(* routes: PATCH /api/scans/:id/cancel.                                    *)
(***************************************************************************)
Cancellable(status) == status = "running" \/ status = "pending"

\* await storage.getScan(id) and the two checks on what it returned.
CancelRead(r, id) ==
    /\ cancelPc[r] = "idle"
    /\ \/ /\ id \in DOMAIN scans
          /\ Cancellable(scans[id].status)
          /\ cancelPc' = [cancelPc EXCEPT ![r] = "write"]
          /\ cancelId' = [cancelId EXCEPT ![r] = id]
       \/ /\ id \notin DOMAIN scans
          /\ UNCHANGED <<cancelPc, cancelId>>
       \/ /\ id \in DOMAIN scans
          /\ ~Cancellable(scans[id].status)
          /\ UNCHANGED <<cancelPc, cancelId>>
       \/ UNCHANGED <<cancelPc, cancelId>>
    /\ UNCHANGED <<scans, findings, postPc, postReply, timerPc, findingsData, stored,
                   statusAtFire, now>>
    /\ UNCHANGED <<techVars, pureVars, exportCall>>

\* await storage.updateScan(id, { status: "cancelled", completedAt }).
CancelWrite(r) ==
    /\ cancelPc[r] = "write"
    /\ \/ /\ scans' = updateScan(cancelId[r],
                 [status |-> "cancelled", completedAt |-> Some(now)])
          /\ now' = now + 1
       \/ UNCHANGED <<scans, now>>
    /\ cancelPc' = [cancelPc EXCEPT ![r] = "idle"]
    /\ UNCHANGED <<findings, postPc, postReply, timerPc, findingsData, stored, cancelId,
                   statusAtFire>>
    /\ UNCHANGED <<techVars, pureVars, exportCall>>


(***************************************************************************)
(* routes: GET /api/scans/:id/export.                                      *)
(***************************************************************************)
\* A call of the handler: the scan getScan returned (if any), the status of
\* the answer (0 while there is none yet) and the findings of the report.
Export(id, scan, status, report) ==
    [id |-> id, scan |-> scan, status |-> status, report |-> report]

ServableWhenOver(status) == status \in {"completed", "cancelled", "failed"}
Servable(status) == status = "completed"

\* await storage.getScan(id) and the two checks on what it returned; when
\* getScan throws, 500.
ExportRead(id) ==
    /\ IF exportCall = undefined THEN TRUE ELSE exportCall[1].status # 0
    /\ \/ /\ id \notin DOMAIN scans
          /\ exportCall' = Some(Export(id, undefined, 404, undefined))
       \/ /\ id \in DOMAIN scans
          /\ ~Servable(scans[id].status)
          /\ exportCall' = Some(Export(id, Some(scans[id]), 400, undefined))
       \/ /\ id \in DOMAIN scans
          /\ Servable(scans[id].status)
          /\ exportCall' = Some(Export(id, Some(scans[id]), 0, undefined))
       \/ exportCall' = Some(Export(id, undefined, 500, undefined))
    /\ UNCHANGED <<scans, findings, postPc, postReply, timerPc, findingsData, stored,
                   cancelPc, cancelId, statusAtFire, now>>
    /\ UNCHANGED <<techVars, pureVars>>

\* await storage.getFindings(id), generatePdfReport(scan, findings) and
\* res.send(pdfBuffer); when one of them throws, 500.
ExportSend ==
    /\ exportCall # undefined
    /\ exportCall[1].status = 0
    /\ \/ exportCall' = Some([exportCall[1] EXCEPT
               !.status = 200, !.report = Some(getFindings(exportCall[1].id))])
       \/ exportCall' = Some([exportCall[1] EXCEPT !.status = 500])
    /\ UNCHANGED <<scans, findings, postPc, postReply, timerPc, findingsData, stored,
                   cancelPc, cancelId, statusAtFire, now>>
    /\ UNCHANGED <<techVars, pureVars>>

(***************************************************************************)
(* nvd-service: the rate limiter.                                          *)
(***************************************************************************)
RATE_LIMIT_DELAY == 6500

\* if (timeSinceLastRequest < RATE_LIMIT_DELAY)
NeedsDelayNever(timeSinceLastRequest) == FALSE
NeedsDelay(timeSinceLastRequest) == timeSinceLastRequest < RATE_LIMIT_DELAY

\* setTimeout(resolve, RATE_LIMIT_DELAY - timeSinceLastRequest), set at `at`
WakeTime(at, timeSinceLastRequest) == at + (RATE_LIMIT_DELAY - timeSinceLastRequest)

(***************************************************************************)
(* nvd-service: what the external database answers, and its normalisation. *)
(* CVSS scores are in tenths (98 is 9.8).                                  *)
(***************************************************************************)
Metric(score, severity) == Some([baseScore |-> score, baseSeverity |-> severity])

Item(id, v31, v2) == [id |-> id, cvssMetricV31 |-> v31, cvssMetricV2 |-> v2]

\* The labels that are not upper case already, with what toUpperCase makes
\* of them; every other label used here is left as it is.
upper ==
    [ critical |-> "CRITICAL", high |-> "HIGH", medium |-> "MEDIUM",
      low |-> "LOW", none |-> "NONE", Critical |-> "CRITICAL",
      High |-> "HIGH", Medium |-> "MEDIUM", Low |-> "LOW", None |-> "NONE" ]

toUpperCase(s) == IF s \in DOMAIN upper THEN upper[s] ELSE s

getSeverityOlderCritical(item) ==
    LET v31 == item.cvssMetricV31
        v2 == item.cvssMetricV2
        s31 == toUpperCase(v31[1].baseSeverity)
        s2 == toUpperCase(v2[1].baseSeverity[1])
    IN  IF v31 # undefined /\ s31 \in {"CRITICAL", "HIGH", "MEDIUM", "LOW"}
        THEN s31
        ELSE IF v2 # undefined /\ v2[1].baseSeverity # undefined
                /\ s2 \in {"CRITICAL", "HIGH", "MEDIUM", "LOW"}
        THEN s2
        ELSE "UNKNOWN"

getSeverity(item) ==
    LET v31 == item.cvssMetricV31
        v2 == item.cvssMetricV2
        s31 == toUpperCase(v31[1].baseSeverity)
        s2 == toUpperCase(v2[1].baseSeverity[1])
    IN  IF v31 # undefined /\ s31 \in {"CRITICAL", "HIGH", "MEDIUM", "LOW"}
        THEN s31
        ELSE IF v2 # undefined /\ v2[1].baseSeverity # undefined
                /\ s2 \in {"HIGH", "MEDIUM", "LOW"}
        THEN s2
        ELSE "UNKNOWN"

getCvssScoreOlderFirst(item) ==
    IF item.cvssMetricV2 # undefined THEN Some(item.cvssMetricV2[1].baseScore)
    ELSE IF item.cvssMetricV31 # undefined THEN Some(item.cvssMetricV31[1].baseScore)
    ELSE undefined

getCvssScore(item) ==
    IF item.cvssMetricV31 # undefined THEN Some(item.cvssMetricV31[1].baseScore)
    ELSE IF item.cvssMetricV2 # undefined THEN Some(item.cvssMetricV2[1].baseScore)
    ELSE undefined

severityOrder == [CRITICAL |-> 0, HIGH |-> 1, MEDIUM |-> 2, LOW |-> 3, UNKNOWN |-> 4]

\* (b.cvssScore || 0)
ScoreOrZero(c) == IF c.cvssScore = undefined THEN 0 ELSE c.cvssScore[1]

compareCvesAscendingScore(a, b) ==
    LET severityDiff == severityOrder[a.severity] - severityOrder[b.severity]
    IN  IF severityDiff # 0 THEN severityDiff
        ELSE ScoreOrZero(a) - ScoreOrZero(b)

\* The comparator of the topCves sort: negative when a goes first.
compareCves(a, b) ==
    LET severityDiff == severityOrder[a.severity] - severityOrder[b.severity]
    IN  IF severityDiff # 0 THEN severityDiff
        ELSE ScoreOrZero(b) - ScoreOrZero(a)

\* Array.prototype.sort is stable: x goes after every element not behind it.
RECURSIVE InsertSorted(_, _)
InsertSorted(sorted, x) ==
    IF sorted = <<>> THEN <<x>>
    ELSE IF compareCves(Head(sorted), x) <= 0
         THEN <<Head(sorted)>> \o InsertSorted(Tail(sorted), x)
         ELSE <<x>> \o sorted

RECURSIVE sort(_)
sort(cves) ==
    IF cves = <<>> THEN <<>>
    ELSE InsertSorted(sort(SubSeq(cves, 1, Len(cves) - 1)), cves[Len(cves)])

slice5(s) == SubSeq(s, 1, Min(5, Len(s)))

RECURSIVE Count(_, _)
Count(cves, severity) ==
    IF cves = <<>> THEN 0
    ELSE (IF Head(cves).severity = severity THEN 1 ELSE 0)
         + Count(Tail(cves), severity)

zeroResult ==
    [cves |-> <<>>, topCves |-> <<>>, totalCount |-> 0, criticalCount |-> 0,
     highCount |-> 0]

\* What fetch(url) comes to: a rejection (transport failure), or a response
\* with a status and, when it is ok, a body.
Rejected == [kind |-> "rejected"]
Http(status) == [kind |-> "http", ok |-> FALSE, status |-> status]
Ok(totalResults, vulnerabilities) ==
    [kind |-> "http", ok |-> TRUE, status |-> 200,
     data |-> [totalResults |-> totalResults, vulnerabilities |-> vulnerabilities]]

\* An ok response whose body response.json() cannot decode.
Undecodable == [kind |-> "undecodable", ok |-> TRUE, status |-> 200]

FailingResponses == {Rejected, Http(429), Http(500), Undecodable}
OkResponses ==
    { Ok(3, << Item("CVE-1", undefined, Metric(50, Some("medium"))),
               Item("CVE-2", Metric(98, "Critical"), Metric(75, Some("HIGH"))),
               Item("CVE-3", Metric(0, "none"), undefined) >>) }
Responses == FailingResponses \cup OkResponses

\* What a try block that threw comes to.
Threw == [threw |-> TRUE]

\* The try block of fetchCvesForTechnology from the response on: the await
\* of rateLimitedFetch rejecting, the 429 return, the error thrown for any
\* other status, response.json() rejecting, and the mapping of the body.
tryFetch(response) ==
    IF response.kind = "rejected" THEN Threw
    ELSE IF ~response.ok
         THEN (IF response.status = 429 THEN zeroResult ELSE Threw)
    ELSE IF response.kind = "undecodable" THEN Threw
    ELSE LET data == response.data
             cves == [ i \in 1..Len(data.vulnerabilities) |->
                         [ cveId |-> data.vulnerabilities[i].id,
                           severity |-> getSeverity(data.vulnerabilities[i]),
                           cvssScore |-> getCvssScore(data.vulnerabilities[i]) ] ]
         IN  [ cves |-> cves,
               topCves |-> slice5(sort(cves)),
               totalCount |-> data.totalResults,
               criticalCount |-> Count(cves, "CRITICAL"),
               highCount |-> Count(cves, "HIGH") ]

fetchCvesForTechnologyNoCatch(response) == tryFetch(response)

\* try { ... } catch (error) { return the zero result }
fetchCvesForTechnology(response) ==
    LET r == tryFetch(response)
    IN  IF r = Threw THEN zeroResult ELSE r

determineSecurityStatusHighFrom5(totalVulnerabilities, criticalCount, highCount) ==
    IF criticalCount > 0 \/ highCount >= 5 THEN "vulnerable"
    ELSE IF totalVulnerabilities = 0 THEN "secure"
    ELSE IF highCount > 0 \/ totalVulnerabilities > 10 THEN "vulnerable"
    ELSE "secure"

determineSecurityStatusUndecided(totalVulnerabilities, criticalCount, highCount) ==
    IF criticalCount > 0 \/ highCount > 5 THEN "vulnerable"
    ELSE IF totalVulnerabilities = 0 THEN "checking"
    ELSE IF highCount > 0 \/ totalVulnerabilities > 10 THEN "vulnerable"
    ELSE "secure"

determineSecurityStatus(totalVulnerabilities, criticalCount, highCount) ==
    IF criticalCount > 0 \/ highCount > 5 THEN "vulnerable"
    ELSE IF totalVulnerabilities = 0 THEN "secure"
    ELSE IF highCount > 0 \/ totalVulnerabilities > 10 THEN "vulnerable"
    ELSE "secure"

(***************************************************************************)
(* storage: technologies.                                                  *)
(***************************************************************************)
TechIds == {"t1", "t2"}

Seed(id, name, vendor) ==
    [ id |-> id, name |-> name, vendor |-> vendor, status |-> "unknown",
      vulnerabilityCount |-> 0, criticalCount |-> 0, highCount |-> 0,
      topCves |-> undefined, lastCheckedAt |-> undefined ]

\* The first rows of defaultTechnologies, as seedTechnologies inserts them.
defaultTechnologies ==
    [ t1 |-> Seed("t1", "Node.js", "nodejs"),
      t2 |-> Seed("t2", "React", "facebook") ]

updateTechnologyDropsWriteBack(id, updates) ==
    IF id \notin DOMAIN technologies \/ "lastCheckedAt" \in DOMAIN updates
    THEN technologies
    ELSE [technologies EXCEPT ![id] = Merge(technologies[id], updates)]

updateTechnologyUpsert(id, updates) ==
    [ x \in DOMAIN technologies \cup {id} |->
        IF x # id THEN technologies[x]
        ELSE IF id \in DOMAIN technologies THEN Merge(technologies[id], updates)
        ELSE Merge(Seed(id, "", ""), updates) ]

updateTechnologyKeepsStatus(id, updates) ==
    IF id \notin DOMAIN technologies THEN technologies
    ELSE [technologies EXCEPT ![id] =
            [Merge(technologies[id], updates) EXCEPT
                !.status = IF "lastCheckedAt" \in DOMAIN updates
                           THEN technologies[id].status ELSE @]]

\* UPDATE ... WHERE id = ...: no row, no change (and undefined is returned).
updateTechnology(id, updates) ==
    IF id \notin DOMAIN technologies THEN technologies
    ELSE [technologies EXCEPT ![id] = Merge(technologies[id], updates)]

\* insertTechnologySchema: the columns without a default are required (of
\* those the rows here keep name and vendor); status and the three counts
\* are optional, the counts any integers, with nothing relating them.
insertTechnologySchema(body) ==
    /\ {"name", "vendor"} \subseteq DOMAIN body
    /\ \A f \in {"vulnerabilityCount", "criticalCount", "highCount"} \cap DOMAIN body :
           body[f] \in Int

\* INSERT ... RETURNING: the row gets its id and the defaults of the table
\* for the columns the body leaves out.
createTechnology(id, tech) ==
    [ x \in DOMAIN technologies \cup {id} |->
        IF x = id THEN Merge(Seed(id, tech.name, tech.vendor), tech)
        ELSE technologies[x] ]

\* DELETE ... WHERE id = ...
deleteTechnology(id) ==
    [ x \in DOMAIN technologies \ {id} |-> technologies[x] ]

\* SELECT without ORDER BY: the rows in any order.
getAllTechnologies ==
    { order \in [1..Cardinality(DOMAIN technologies) -> DOMAIN technologies] :
        \A i, j \in DOMAIN order : i # j => order[i] # order[j] }

(***************************************************************************)
(* nvd-service and routes: checkAllTechnologies, checkSingleTechnology.    *)
(* Each check runs in a slot of its own, so at most two checks overlap;    *)
(* slots are taken in order.                                               *)
(***************************************************************************)
Procs == {1, 2}
ClockStep == 3250
MaxTicks == 2

\* const WEEK_IN_MS = 7 * 24 * 60 * 60 * 1000
WEEK_IN_MS == 7 * 24 * 60 * 60 * 1000

\* The clock is followed for MaxTicks steps after the server has started, and
\* after each fire of the weekly timer.
MaxTime == (nextFire - WEEK_IN_MS) + MaxTicks * ClockStep

FreeSlot(p) ==
    /\ procPc[p] = "idle"
    /\ \A q \in Procs : q < p => procPc[q] # "idle"

NewRun(ids) ==
    [ids |-> ids, marked |-> 0, threw |-> FALSE, allFailed |-> TRUE]

\* checkAllTechnologies is called and its
\* const technologies = await getAllTechnologies() returns or throws.
SnapshotAll(p) ==
    /\ procKind' = [procKind EXCEPT ![p] = "all"]
    /\ \/ \E order \in getAllTechnologies :
            /\ procList' = [procList EXCEPT ![p] = order]
            /\ procRun' = [procRun EXCEPT ![p] = NewRun(order)]
            /\ procPc' = [procPc EXCEPT ![p] = IF order = <<>> THEN "done" ELSE "mark"]
       \/ /\ procPc' = [procPc EXCEPT ![p] = "aborted"]
          /\ procRun' = [procRun EXCEPT ![p] = [NewRun(<<>>) EXCEPT !.threw = TRUE]]
          /\ UNCHANGED procList

\* POST /api/technologies/check starts checkAllTechnologies in the background.
CheckAllStart(p) ==
    /\ FreeSlot(p)
    /\ SnapshotAll(p)
    /\ UNCHANGED <<technologies, lastRequestTime, procWake, procResult, requests, now>>
    /\ UNCHANGED <<scanVars, pureVars, nextFire>>

\* The callback of setInterval(..., WEEK_IN_MS): it starts
\* checkAllTechnologies whatever else is running.
SchedulerFire(p) ==
    /\ now >= nextFire
    /\ FreeSlot(p)
    /\ SnapshotAll(p)
    /\ nextFire' = nextFire + WEEK_IN_MS
    /\ UNCHANGED <<technologies, lastRequestTime, procWake, procResult, requests, now>>
    /\ UNCHANGED <<scanVars, pureVars>>

\* POST /api/technologies/:id/check: getTechnology, 404 when there is none,
\* 500 when it throws, else checkSingleTechnology(tech, ...).
CheckOneStart(p, id) ==
    /\ FreeSlot(p)
    /\ \/ /\ id \in DOMAIN technologies
          /\ procKind' = [procKind EXCEPT ![p] = "one"]
          /\ procList' = [procList EXCEPT ![p] = <<id>>]
          /\ procRun' = [procRun EXCEPT ![p] = NewRun(<<id>>)]
          /\ procPc' = [procPc EXCEPT ![p] = "mark"]
       \/ /\ id \notin DOMAIN technologies
          /\ UNCHANGED <<procKind, procList, procRun, procPc>>
       \/ UNCHANGED <<procKind, procList, procRun, procPc>>
    /\ UNCHANGED <<technologies, lastRequestTime, procWake, procResult, requests, now>>
    /\ UNCHANGED <<scanVars, pureVars, nextFire>>

\* lastRequestTime = Date.now(); return fetch(url)
IssueRequest(p) ==
    /\ lastRequestTime' = now
    /\ requests' = Append(requests, [at |-> now, by |-> p])
    /\ procRun' = [procRun EXCEPT ![p].marked = IF procPc[p] = "mark" THEN @ + 1 ELSE @]
    /\ procPc' = [procPc EXCEPT ![p] = "request"]

\* The catch of the loop body (checkAll), or the rejection of
\* checkSingleTechnology, which the route answers with 500.
Thrown(p) ==
    /\ procPc' = [procPc EXCEPT ![p] = IF procKind[p] = "all" THEN "unknown" ELSE "aborted"]
    /\ procRun' = [procRun EXCEPT ![p].threw = TRUE]

\* The loop goes on to the next technology, or the check returns.
Advance(p) ==
    /\ procList' = [procList EXCEPT ![p] = Tail(@)]
    /\ procPc' = [procPc EXCEPT ![p] = IF Len(procList[p]) > 1 THEN "mark" ELSE "done"]

\* await updateTechnology(tech.id, { status: "checking" }), and then
\* rateLimitedFetch up to its first await.
Mark(p) ==
    /\ procPc[p] = "mark"
    /\ \/ /\ technologies' = updateTechnology(Head(procList[p]), [status |-> "checking"])
          /\ LET timeSinceLastRequest == now - lastRequestTime
             IN  \/ /\ NeedsDelay(timeSinceLastRequest)
                    /\ procWake' = [procWake EXCEPT ![p] = WakeTime(now, timeSinceLastRequest)]
                    /\ procPc' = [procPc EXCEPT ![p] = "sleep"]
                    /\ procRun' = [procRun EXCEPT ![p].marked = @ + 1]
                    /\ UNCHANGED <<lastRequestTime, requests>>
                 \/ /\ ~NeedsDelay(timeSinceLastRequest)
                    /\ IssueRequest(p)
                    /\ UNCHANGED procWake
       \/ /\ Thrown(p)
          /\ UNCHANGED <<technologies, lastRequestTime, procWake, requests>>
    /\ UNCHANGED <<procKind, procList, procResult, now>>
    /\ UNCHANGED <<scanVars, pureVars, nextFire>>

\* The timer of rateLimitedFetch fires, at or after its time.
Wake(p) ==
    /\ procPc[p] = "sleep"
    /\ now >= procWake[p]
    /\ IssueRequest(p)
    /\ UNCHANGED <<technologies, procKind, procList, procWake, procResult, now>>
    /\ UNCHANGED <<scanVars, pureVars, nextFire>>

\* The response arrives: fetchCvesForTechnology returns, the status is
\* determined and the write-back is called.
Respond(p, response) ==
    /\ procPc[p] = "request"
    /\ LET r == fetchCvesForTechnology(response)
       IN  procResult' = [procResult EXCEPT ![p] =
               [ vulnerabilityCount |-> r.totalCount,
                 criticalCount |-> r.criticalCount,
                 highCount |-> r.highCount,
                 topCves |-> Some(r.topCves),
                 status |-> determineSecurityStatus(r.totalCount, r.criticalCount, r.highCount),
                 lastCheckedAt |-> Some(now) ]]
    /\ procRun' = [procRun EXCEPT ![p].allFailed = @ /\ response \in FailingResponses]
    /\ procPc' = [procPc EXCEPT ![p] = "write"]
    /\ UNCHANGED <<technologies, lastRequestTime, procKind, procList, procWake, requests, now>>
    /\ UNCHANGED <<scanVars, pureVars, nextFire>>

\* await updateTechnology(tech.id, { vulnerabilityCount, ..., lastCheckedAt })
WriteBack(p) ==
    /\ procPc[p] = "write"
    /\ \/ /\ technologies' = updateTechnology(Head(procList[p]), procResult[p])
          /\ Advance(p)
          /\ UNCHANGED procRun
       \/ /\ Thrown(p)
          /\ UNCHANGED <<technologies, procList>>
    /\ procResult' = [procResult EXCEPT ![p] = undefined]
    /\ UNCHANGED <<lastRequestTime, procKind, procWake, requests, now>>
    /\ UNCHANGED <<scanVars, pureVars, nextFire>>

\* catch: await updateTechnology(tech.id, { status: "unknown" }); when this
\* throws, checkAllTechnologies rejects and the loop is over.
MarkUnknown(p) ==
    /\ procPc[p] = "unknown"
    /\ \/ /\ technologies' = updateTechnology(Head(procList[p]), [status |-> "unknown"])
          /\ Advance(p)
       \/ /\ procPc' = [procPc EXCEPT ![p] = "aborted"]
          /\ UNCHANGED <<technologies, procList>>
    /\ UNCHANGED <<lastRequestTime, procKind, procWake, procResult, procRun, requests, now>>
    /\ UNCHANGED <<scanVars, pureVars, nextFire>>

\* The ids gen_random_uuid() hands to added technologies, and the bodies
\* POST /api/technologies is sent.
NewTechIds == {"t3"}
TechBodies ==
    { [name |-> "Nginx", vendor |-> "nginx"],
      [name |-> "Nginx", vendor |-> "nginx", status |-> "secure",
       vulnerabilityCount |-> 0, criticalCount |-> 1, highCount |-> 0],
      [vendor |-> "nginx"] }

\* A fresh id is one no row has and no check remembers.
Fresh(id) ==
    /\ id \notin DOMAIN technologies
    /\ \A p \in Procs : \A i \in DOMAIN procRun[p].ids : procRun[p].ids[i] # id

\* POST /api/technologies: 400 when the body does not parse, 500 when
\* createTechnology throws, else the row is inserted.
AddTechnology(id, body) ==
    /\ Fresh(id)
    /\ \/ /\ insertTechnologySchema(body)
          /\ technologies' = createTechnology(id, body)
       \/ /\ ~insertTechnologySchema(body)
          /\ UNCHANGED technologies
       \/ UNCHANGED technologies
    /\ UNCHANGED <<lastRequestTime, procPc, procKind, procList, procWake,
                   procResult, procRun, requests, now>>
    /\ UNCHANGED <<scanVars, pureVars, nextFire>>

\* DELETE /api/technologies/:id: the row, if there is one, is removed, or
\* deleteTechnology throws (500).
DeleteTechnology(id) ==
    /\ \/ technologies' = deleteTechnology(id)
       \/ UNCHANGED technologies
    /\ UNCHANGED <<lastRequestTime, procPc, procKind, procList, procWake,
                   procResult, procRun, requests, now>>
    /\ UNCHANGED <<scanVars, pureVars, nextFire>>

\* Time passes.
Tick ==
    /\ now + ClockStep <= MaxTime
    /\ now' = now + ClockStep
    /\ UNCHANGED <<scanVars, techVars, pureVars>>

\* The time up to the next fire of the weekly timer passes.  The timers of
\* rateLimitedFetch are due long before and have fired; an awaited storage
\* call or fetch(url) has no timeout and may still be pending.
WeekPasses ==
    /\ now < nextFire
    /\ \E p \in Procs : FreeSlot(p)
    /\ \A p \in Procs : procPc[p] # "sleep"
    /\ now' = nextFire
    /\ UNCHANGED <<scanVars, techVars, pureVars>>

(***************************************************************************)
(* The specifications: Spec is the life of one scan, TechSpec the checks   *)
(* of the seeded technologies.                                             *)
(***************************************************************************)
InitScans ==
    /\ scans = <<>>
    /\ findings = [id \in ScanIds |-> <<>>]
    /\ postPc = [id \in ScanIds |-> "none"]
    /\ postReply = [id \in ScanIds |-> undefined]
    /\ timerPc = [id \in ScanIds |-> "none"]
    /\ findingsData = [id \in ScanIds |-> <<>>]
    /\ stored = [id \in ScanIds |-> 0]
    /\ cancelPc = [r \in CancelRequests |-> "idle"]
    /\ cancelId = [r \in CancelRequests |-> "s1"]
    /\ statusAtFire = [id \in ScanIds |-> "none"]
    /\ exportCall = undefined

InitTech ==
    /\ technologies = defaultTechnologies
    /\ lastRequestTime = 0
    /\ procPc = [p \in Procs |-> "idle"]
    /\ procKind = [p \in Procs |-> "all"]
    /\ procList = [p \in Procs |-> <<>>]
    /\ procWake = [p \in Procs |-> 0]
    /\ procResult = [p \in Procs |-> undefined]
    /\ procRun = [p \in Procs |-> NewRun(<<>>)]
    /\ requests = <<>>
    /\ nextFire = RATE_LIMIT_DELAY + WEEK_IN_MS

\* Date.now() is far past RATE_LIMIT_DELAY, so the first request never waits.
Init ==
    /\ InitScans
    /\ InitTech
    /\ now = RATE_LIMIT_DELAY
    /\ call = undefined
    /\ result = undefined

Next ==
    \/ \E id \in SoloIds, target \in Targets, configuration \in Configs :
         PostScan(id, target, configuration)
    \/ \E id \in ScanIds : StartScan(id)
    \/ \E id \in ScanIds : CompletionFire(id)
    \/ \E id \in ScanIds : StoreFinding(id)
    \/ \E id \in ScanIds : CompleteScan(id)
    \/ \E id \in ScanIds : FailScan(id)
    \/ \E r \in CancelRequests, id \in ScanIds : CancelRead(r, id)
    \/ \E r \in CancelRequests : CancelWrite(r)

Spec == Init /\ [][Next]_vars

\* The event loop runs every continuation that is ready: the awaited start,
\* the timer callback once its delay is over, and each step of the callback
\* after the storage call it awaits has settled.  Whether a storage call
\* succeeds or throws stays open.
TimerFairness ==
    \A id \in ScanIds :
        /\ WF_vars(StartScan(id))
        /\ WF_vars(CompletionFire(id))
        /\ WF_vars(StoreFinding(id))
        /\ WF_vars(CompleteScan(id))
        /\ WF_vars(FailScan(id))

FairSpec == Init /\ [][Next]_vars /\ TimerFairness

TechNext ==
    \/ \E p \in Procs : CheckAllStart(p)
    \/ \E p \in Procs, id \in TechIds : CheckOneStart(p, id)
    \/ \E p \in Procs : Mark(p)
    \/ \E p \in Procs : Wake(p)
    \/ \E p \in Procs, response \in Responses : Respond(p, response)
    \/ \E p \in Procs : WriteBack(p)
    \/ \E p \in Procs : MarkUnknown(p)
    \/ Tick

TechSpec == Init /\ [][TechNext]_vars

\* The event loop runs every continuation of a check that is ready: after an
\* awaited storage call has settled and after the timer of rateLimitedFetch
\* is due.  fetch(url) is given no signal and no timeout, so nothing in the
\* program makes the await of the response end: Respond is left to the network.
CheckFairness ==
    \A p \in Procs :
        /\ WF_vars(Mark(p))
        /\ WF_vars(Wake(p))
        /\ WF_vars(WriteBack(p))
        /\ WF_vars(MarkUnknown(p))

TechFairSpec == Init /\ [][TechNext]_vars /\ CheckFairness

(***************************************************************************)
(* The pure functions, each applied to arguments drawn from a bounded set. *)
(* A call holds the name of the function and the arguments of one or more  *)
(* applications of it; the result holds what each application returned.    *)
(***************************************************************************)
Call(fn, arg) == [fn |-> fn, arg |-> arg]

InitPure(calls) ==
    /\ InitScans
    /\ InitTech
    /\ now = RATE_LIMIT_DELAY
    /\ call \in calls
    /\ result = undefined

\* security-checks, calculateSecurityScore(findings): the finding lists of up
\* to MaxFindings findings, and the pairs of a list of up to MaxReordered
\* findings and a reordering of it.
MaxFindings == 5
MaxReordered == 3

FindingSeqs(n) ==
    UNION { [1..k -> { [severity |-> sev] : sev \in severityEnum }] : k \in 0..n }

Reorderings(fs) ==
    { [i \in DOMAIN fs |-> fs[pi[i]]] : pi \in Permutations(DOMAIN fs) }

ScoreCalls(maxFindings, maxReordered) ==
    { Call("calculateSecurityScore", <<fs>>) : fs \in FindingSeqs(maxFindings) }
    \cup UNION { { Call("calculateSecurityScore", <<fs, gs>>) : gs \in Reorderings(fs) } :
                   fs \in FindingSeqs(maxReordered) }

CalculateScore ==
    /\ call # undefined
    /\ call.fn = "calculateSecurityScore"
    /\ result = undefined
    /\ result' = Some([i \in DOMAIN call.arg |-> calculateSecurityScore(call.arg[i])])
    /\ UNCHANGED <<call, now, scanVars, techVars>>

ScoreInit == InitPure(ScoreCalls(MaxFindings, MaxReordered))
ScoreNext == CalculateScore
ScoreSpec == ScoreInit /\ [][ScoreNext]_vars

\* nvd-service, getSeverity(item) and getCvssScore(item): the raw records
\* with either payload absent or present, the labels in either case and
\* outside the accepted ones, the older label absent as well.
V31Labels == {"CRITICAL", "HIGH", "MEDIUM", "LOW", "NONE", "high", "Critical"}
V2Labels == {"CRITICAL", "HIGH", "MEDIUM", "LOW", "medium"}

RawItems ==
    { Item("CVE-1", v31, v2) :
        v31 \in {undefined} \cup { Metric(score, label) : score \in {0, 98}, label \in V31Labels },
        v2 \in {undefined}
               \cup { Metric(50, label) : label \in {undefined} \cup { Some(l) : l \in V2Labels } } }

NormalizeCalls == { Call("normalize", item) : item \in RawItems }

\* severity: getSeverity(item), cvssScore: getCvssScore(item)
Normalize ==
    /\ call # undefined
    /\ call.fn = "normalize"
    /\ result = undefined
    /\ result' = Some([ severity |-> getSeverity(call.arg),
                        cvssScore |-> getCvssScore(call.arg) ])
    /\ UNCHANGED <<call, now, scanVars, techVars>>

NormalizeInit == InitPure(NormalizeCalls)
NormalizeNext == Normalize
NormalizeSpec == NormalizeInit /\ [][NormalizeNext]_vars

\* nvd-service, determineSecurityStatus(totalVulnerabilities, criticalCount,
\* highCount): every triple of counts up to MaxCount, whether or not the
\* critical and high counts fit in the total.
MaxCount == 11

StatusCalls ==
    { Call("determineSecurityStatus",
           [totalVulnerabilities |-> t, criticalCount |-> c, highCount |-> h]) :
        t \in 0..MaxCount, c \in 0..MaxCount, h \in 0..MaxCount }

DetermineStatus ==
    /\ call # undefined
    /\ call.fn = "determineSecurityStatus"
    /\ result = undefined
    /\ result' = Some(determineSecurityStatus(call.arg.totalVulnerabilities,
                                              call.arg.criticalCount,
                                              call.arg.highCount))
    /\ UNCHANGED <<call, now, scanVars, techVars>>

StatusInit == InitPure(StatusCalls)
StatusNext == DetermineStatus
StatusSpec == StatusInit /\ [][StatusNext]_vars

\* nvd-service, fetchCvesForTechnology from an ok response on: the bodies of
\* up to MaxItems records, each one of PageItems.
MaxItems == 6

PageItems ==
    { Item("CVE-A", Metric(98, "CRITICAL"), undefined),
      Item("CVE-B", Metric(75, "HIGH"), undefined),
      Item("CVE-C", Metric(98, "HIGH"), Metric(75, Some("HIGH"))),
      Item("CVE-D", undefined, Metric(50, Some("LOW"))),
      Item("CVE-E", undefined, undefined) }

FetchCalls(maxItems) ==
    { Call("fetchCvesForTechnology", Ok(Len(items), items)) :
        items \in UNION { [1..k -> PageItems] : k \in 0..maxItems } }
    \cup { Call("fetchCvesForTechnology", response) : response \in FailingResponses }

FetchCves ==
    /\ call # undefined
    /\ call.fn = "fetchCvesForTechnology"
    /\ result = undefined
    /\ result' = Some(fetchCvesForTechnology(call.arg))
    /\ UNCHANGED <<call, now, scanVars, techVars>>

FetchInit == InitPure(FetchCalls(MaxItems))
FetchNext == FetchCves
FetchSpec == FetchInit /\ [][FetchNext]_vars

\* The registry of technologies with one check at a time.
RegistryProcs == {1}

RegistryNext ==
    \/ \E id \in NewTechIds, body \in TechBodies : AddTechnology(id, body)
    \/ \E id \in TechIds \cup NewTechIds : DeleteTechnology(id)
    \/ \E p \in RegistryProcs : CheckAllStart(p)
    \/ \E p \in RegistryProcs, id \in TechIds \cup NewTechIds : CheckOneStart(p, id)
    \/ \E p \in RegistryProcs : Mark(p)
    \/ \E p \in RegistryProcs : Wake(p)
    \/ \E p \in RegistryProcs, response \in Responses : Respond(p, response)
    \/ \E p \in RegistryProcs : WriteBack(p)
    \/ \E p \in RegistryProcs : MarkUnknown(p)
    \/ Tick

RegistrySpec == Init /\ [][RegistryNext]_vars

\* The weekly scheduler alone: every checkAll is one it started.
SchedNext ==
    \/ WeekPasses
    \/ \E p \in Procs : SchedulerFire(p)
    \/ \E p \in Procs : Mark(p)
    \/ \E p \in Procs : Wake(p)
    \/ \E p \in Procs, response \in Responses : Respond(p, response)
    \/ \E p \in Procs : WriteBack(p)
    \/ \E p \in Procs : MarkUnknown(p)
    \/ Tick

SchedSpec == Init /\ [][SchedNext]_vars

\* The routes of both halves registered on one app: one scan and one cancel
\* request next to one technology check and the removal of a technology.
\* No time passes but for the storage writes, so a check that has to wait
\* for the rate limit stays waiting.
AppNext ==
    \/ \E id \in SoloIds, target \in {"example.com", "not a url"} :
         PostScan(id, target, [checkTypes |-> <<"dns_security">>, scanDepth |-> "quick"])
    \/ \E id \in SoloIds : StartScan(id)
    \/ \E id \in SoloIds : CompletionFire(id)
    \/ \E id \in SoloIds : StoreFinding(id)
    \/ \E id \in SoloIds : CompleteScan(id)
    \/ \E id \in SoloIds : FailScan(id)
    \/ \E id \in SoloIds : CancelRead(1, id)
    \/ CancelWrite(1)
    \/ \E id \in {"t2"} : DeleteTechnology(id)
    \/ \E p \in RegistryProcs : CheckAllStart(p)
    \/ \E p \in RegistryProcs, id \in {"t1"} : CheckOneStart(p, id)
    \/ \E p \in RegistryProcs : Mark(p)
    \/ \E p \in RegistryProcs : Respond(p, Rejected)
    \/ \E p \in RegistryProcs : WriteBack(p)
    \/ \E p \in RegistryProcs : MarkUnknown(p)

AppSpec == Init /\ [][AppNext]_vars

\* Two scans side by side: each is created, started and completed, and one
\* cancel request at a time is sent for the first of them.
PairNext ==
    \/ \E id \in ScanIds :
         PostScan(id, "example.com", [checkTypes |-> <<"dns_security">>, scanDepth |-> "quick"])
    \/ \E id \in ScanIds : StartScan(id)
    \/ \E id \in ScanIds : CompletionFire(id)
    \/ \E id \in ScanIds : StoreFinding(id)
    \/ \E id \in ScanIds : CompleteScan(id)
    \/ \E id \in ScanIds : FailScan(id)
    \/ \E id \in SoloIds : CancelRead(1, id)
    \/ CancelWrite(1)

PairSpec == Init /\ [][PairNext]_vars

\* One scan with one cancel request at a time, and exports of it, one at a
\* time, at any moment of its life.
ExportNext ==
    \/ \E id \in SoloIds, target \in {"example.com", "not a url"} :
         PostScan(id, target, [checkTypes |-> <<"dns_security">>, scanDepth |-> "quick"])
    \/ \E id \in SoloIds : StartScan(id)
    \/ \E id \in SoloIds : CompletionFire(id)
    \/ \E id \in SoloIds : StoreFinding(id)
    \/ \E id \in SoloIds : CompleteScan(id)
    \/ \E id \in SoloIds : FailScan(id)
    \/ \E id \in SoloIds : CancelRead(1, id)
    \/ CancelWrite(1)
    \/ \E id \in SoloIds : ExportRead(id)
    \/ ExportSend

ExportSpec == Init /\ [][ExportNext]_vars

(***************************************************************************)
(* Properties of the scan lifecycle (checked under Spec).                  *)
(***************************************************************************)
Terminal(status) == status \in {"completed", "cancelled", "failed"}

\* C1: when the completion callback fires on a scan that a cancel has already
\* moved to `cancelled`, the callback is a no-op: it stores no finding and
\* no score, and the scan keeps status `cancelled`.
C1_CancelledWins ==
    \A id \in DOMAIN scans :
        statusAtFire[id] = "cancelled"
            => /\ scans[id].status = "cancelled"
               /\ scans[id].overallScore = undefined
               /\ findings[id] = <<>>

\* C2: no scan has status `cancelled` or `failed` together with a score.
C2_NoScoreUnlessCompleted ==
    \A id \in DOMAIN scans :
        scans[id].status \in {"cancelled", "failed"}
            => scans[id].overallScore = undefined

\* C3: once a scan's status is terminal, no step changes its status, its
\* score or its completion timestamp.
C3_TerminalSnapshot ==
    [][ \A id \in DOMAIN scans :
          Terminal(scans[id].status)
              => /\ scans'[id].status = scans[id].status
                 /\ scans'[id].overallScore = scans[id].overallScore
                 /\ scans'[id].completedAt = scans[id].completedAt ]_vars

\* C4: a cancel whose read and write straddle the completion's write is
\* rejected: no step overwrites `completed` or `failed` with `cancelled`.
C4_CancelCheckAndSet ==
    [][ \A id \in DOMAIN scans :
          scans[id].status \in {"completed", "failed"}
              => scans'[id].status # "cancelled" ]_vars

\* C5: every status change is an edge of the state machine, and a scan is
\* created `pending`.
Edges ==
    { <<"pending", "running">>, <<"pending", "cancelled">>,
      <<"running", "completed">>, <<"running", "cancelled">>,
      <<"running", "failed">> }

C5_OnlyEdges ==
    [][ \A id \in DOMAIN scans' :
          IF id \in DOMAIN scans
          THEN scans'[id].status # scans[id].status
                   => <<scans[id].status, scans'[id].status>> \in Edges
          ELSE scans'[id].status = "pending" ]_vars

\* C6: a scan whose status is not `completed` has no persisted finding.
C6_FindingsOnlyWhenCompleted ==
    \A id \in DOMAIN scans :
        scans[id].status # "completed" => getFindings(id) = <<>>

(***************************************************************************)
(* Properties of the technology checks (checked under TechSpec).           *)
(***************************************************************************)
\* The start times of the requests check p has issued, in order.
RECURSIVE AttemptsOf(_, _)
AttemptsOf(reqs, p) ==
    IF reqs = <<>> THEN <<>>
    ELSE (IF Head(reqs).by = p THEN <<Head(reqs).at>> ELSE <<>>)
         \o AttemptsOf(Tail(reqs), p)

Attempts(p) == AttemptsOf(requests, p)

Spaced(times) ==
    \A i \in 1..(Len(times) - 1) : times[i + 1] - times[i] >= RATE_LIMIT_DELAY

Finished(p) == procPc[p] \in {"done", "aborted"}

Alone(p) == \A q \in Procs \ {p} : procPc[q] = "idle"

\* C7: no two outbound requests begin less than RATE_LIMIT_DELAY apart,
\* whoever the callers are.
C7_MinimumInterval ==
    \A i, j \in DOMAIN requests :
        i < j => requests[j].at - requests[i].at >= RATE_LIMIT_DELAY

\* C8: a checkAll that ran alone, with every external call failing and no
\* storage call throwing, leaves every technology `unknown` when it returns.
C8_FailingClientLeavesUnknown ==
    \A p \in Procs :
        ( /\ procKind[p] = "all"
          /\ procPc[p] = "done"
          /\ Alone(p)
          /\ procRun[p].allFailed
          /\ ~procRun[p].threw )
            => \A i \in DOMAIN procRun[p].ids :
                   technologies[procRun[p].ids[i]].status = "unknown"

\* C9, as claimed: a checkAll that has returned has issued exactly one
\* request per technology of its snapshot, RATE_LIMIT_DELAY apart or more.
C9_ExactlyN ==
    \A p \in Procs :
        (procKind[p] = "all" /\ procPc[p] = "done")
            => /\ Len(Attempts(p)) = Len(procRun[p].ids)
               /\ Spaced(Attempts(p))

\* C9, amended: a checkAll issues one request for each technology whose
\* `checking` update did not throw (the one it is sleeping for excepted),
\* never more than its snapshot holds, exactly as many when it returns
\* without any storage call having thrown; and its consecutive requests
\* begin RATE_LIMIT_DELAY apart or more.
C9_OnePerMarked ==
    \A p \in Procs :
        procKind[p] = "all"
            => /\ Len(Attempts(p))
                    = procRun[p].marked - (IF procPc[p] = "sleep" THEN 1 ELSE 0)
               /\ procRun[p].marked <= Len(procRun[p].ids)
               /\ (procPc[p] = "done" /\ ~procRun[p].threw)
                      => Len(Attempts(p)) = Len(procRun[p].ids)
               /\ Spaced(Attempts(p))

\* A checkAll over two technologies has returned after two requests, the
\* second RATE_LIMIT_DELAY after the first.
C9_Witness ==
    \E p \in Procs :
        /\ procKind[p] = "all"
        /\ procPc[p] = "done"
        /\ Len(procRun[p].ids) = 2
        /\ Len(Attempts(p)) = 2
        /\ Attempts(p)[2] - Attempts(p)[1] = RATE_LIMIT_DELAY

\* C10: a checkOne that ran alone never leaves its technology `checking`
\* when it ends, and leaves it `unknown` when a step after the mark threw.
C10_NeverStuckChecking ==
    \A p \in Procs :
        (procKind[p] = "one" /\ Finished(p) /\ Alone(p))
            => /\ technologies[procRun[p].ids[1]].status # "checking"
               /\ (procPc[p] = "aborted" /\ procRun[p].marked = 1)
                      => technologies[procRun[p].ids[1]].status = "unknown"

\* C11: once the loop of a checkAll has started, a failure on one technology
\* (a throwing storage update included) never ends the invocation: it does
\* not reject, and every technology of its snapshot is visited.
C11_LoopNeverAborts ==
    \A p \in Procs :
        (procKind[p] = "all" /\ procRun[p].ids # <<>>)
            => /\ procPc[p] # "aborted"
               /\ procPc[p] = "done" => procList[p] = <<>>

(***************************************************************************)
(* Properties of the weekly scheduler (checked under SchedSpec).           *)
(***************************************************************************)
InProgress(p) == procPc[p] \notin {"idle", "done", "aborted"}

\* C12: a fire of the weekly timer while a checkAll it started earlier is
\* still running is a no-op: never are two checkAll invocations started by
\* the scheduler in progress together.
C12_NoOverlappingScheduledChecks ==
    \A p, q \in Procs :
        (p # q /\ procKind[p] = "all" /\ procKind[q] = "all")
            => ~(InProgress(p) /\ InProgress(q))

(***************************************************************************)
(* Properties of the registry of technologies (checked under RegistrySpec).*)
(***************************************************************************)
\* C13: every stored technology has criticalCount <= vulnerabilityCount and
\* highCount <= vulnerabilityCount.
C13_CountsWithinTotal ==
    \A id \in DOMAIN technologies :
        /\ technologies[id].criticalCount <= technologies[id].vulnerabilityCount
        /\ technologies[id].highCount <= technologies[id].vulnerabilityCount

(***************************************************************************)
(* Properties of the score (checked under ScoreSpec).                      *)
(***************************************************************************)
Returned(fn) == call # undefined /\ call.fn = fn /\ result # undefined

\* C14: the score of every finding list is an integer from 0 to 100, and
\* the score of the empty list is 100.
C14_ScoreInRange ==
    Returned("calculateSecurityScore")
        => \A i \in DOMAIN call.arg :
               /\ result[1][i] \in 0..100
               /\ call.arg[i] = <<>> => result[1][i] = 100

\* Five critical findings, whose deductions pass 100, have scored 0.
C14_Witness ==
    /\ Returned("calculateSecurityScore")
    /\ call.arg = << [i \in 1..5 |-> [severity |-> "critical"]] >>
    /\ result[1][1] = 0

\* C15: a finding list and any reordering of it have the same score.
C15_OrderInvariant ==
    (Returned("calculateSecurityScore") /\ Len(call.arg) = 2)
        => result[1][1] = result[1][2]

\* A list that begins with a critical finding and its reordering that begins
\* with a low one have been scored.
C15_Witness ==
    /\ Returned("calculateSecurityScore")
    /\ Len(call.arg) = 2
    /\ Len(call.arg[1]) = 3
    /\ call.arg[1][1].severity = "critical"
    /\ call.arg[2][1].severity = "low"
    /\ result[1][1] = result[1][2]

\* C16: the score of a non-empty finding list is 100 - D brought into 0..100,
\* D being 25 for each critical finding, 15 for each high, 8 for each medium,
\* 3 for each low and 0 for each info.
NumberOf(fs, severity) == Cardinality({ i \in DOMAIN fs : fs[i].severity = severity })

Deductions(fs) ==
    25 * NumberOf(fs, "critical") + 15 * NumberOf(fs, "high")
    + 8 * NumberOf(fs, "medium") + 3 * NumberOf(fs, "low") + 0 * NumberOf(fs, "info")

Clamp(x, lo, hi) == IF x < lo THEN lo ELSE IF x > hi THEN hi ELSE x

C16_ClampedDeduction ==
    Returned("calculateSecurityScore")
        => \A i \in DOMAIN call.arg :
               call.arg[i] # <<>>
                   => result[1][i] = Clamp(100 - Deductions(call.arg[i]), 0, 100)

\* One finding of each severity has scored 100 - 51.
C16_Witness ==
    /\ Returned("calculateSecurityScore")
    /\ call.arg = << << [severity |-> "info"], [severity |-> "low"],
                        [severity |-> "medium"], [severity |-> "high"],
                        [severity |-> "critical"] >> >>
    /\ result[1][1] = 49

(***************************************************************************)
(* Properties of the normalisation of a raw record (checked under          *)
(* NormalizeSpec).                                                         *)
(***************************************************************************)
HasNewer(item) == item.cvssMetricV31 # undefined
HasOlder(item) == item.cvssMetricV2 # undefined
NewerLabel(item) == item.cvssMetricV31[1].baseSeverity
HasOlderLabel(item) == HasOlder(item) /\ item.cvssMetricV2[1].baseSeverity # undefined
OlderLabel(item) == item.cvssMetricV2[1].baseSeverity[1]

NewerAccepted == {"CRITICAL", "HIGH", "MEDIUM", "LOW"}
OlderAccepted == {"HIGH", "MEDIUM", "LOW"}

\* C17, as claimed: the severity is the newer scheme's label when that label
\* is one of CRITICAL, HIGH, MEDIUM, LOW; otherwise the older scheme's label
\* when it is one of HIGH, MEDIUM, LOW; otherwise UNKNOWN.
C17_LabelAsGiven ==
    Returned("normalize")
        => LET item == call.arg
               newer == HasNewer(item) /\ NewerLabel(item) \in NewerAccepted
               older == HasOlderLabel(item) /\ OlderLabel(item) \in OlderAccepted
           IN  /\ newer => result[1].severity = NewerLabel(item)
               /\ (~newer /\ older) => result[1].severity = OlderLabel(item)
               /\ (~newer /\ ~older) => result[1].severity = "UNKNOWN"

\* C17, amended: the labels are compared and returned in upper case.  The
\* severity is the newer scheme's label in upper case when that is one of
\* CRITICAL, HIGH, MEDIUM, LOW; otherwise the older scheme's label in upper
\* case when that is one of HIGH, MEDIUM, LOW; otherwise UNKNOWN.
C17_LabelInUpperCase ==
    Returned("normalize")
        => LET item == call.arg
               newer == HasNewer(item) /\ toUpperCase(NewerLabel(item)) \in NewerAccepted
               older == HasOlderLabel(item) /\ toUpperCase(OlderLabel(item)) \in OlderAccepted
           IN  /\ newer => result[1].severity = toUpperCase(NewerLabel(item))
               /\ (~newer /\ older) => result[1].severity = toUpperCase(OlderLabel(item))
               /\ (~newer /\ ~older) => result[1].severity = "UNKNOWN"

\* A record with the newer label HIGH and the older label MEDIUM has been
\* given the severity HIGH.
C17_Witness ==
    /\ Returned("normalize")
    /\ HasNewer(call.arg) /\ NewerLabel(call.arg) = "HIGH"
    /\ HasOlderLabel(call.arg) /\ OlderLabel(call.arg) = "MEDIUM"
    /\ result[1].severity = "HIGH"

StatusCases ==
    { <<1, 0, 1, "vulnerable">>, <<0, 6, 6, "vulnerable">>,
      <<0, 0, 0, "secure">>, <<0, 1, 1, "vulnerable">>,
      <<0, 0, 11, "vulnerable">>, <<0, 0, 5, "secure">> }

\* C19: the status is vulnerable when critical > 0 or high > 5; else secure
\* when total = 0; else vulnerable when high > 0 or total > 10; else secure.
\* So it is never unknown, and the six cases come out as listed.
C19_StatusRule ==
    Returned("determineSecurityStatus")
        => LET total == call.arg.totalVulnerabilities
               critical == call.arg.criticalCount
               high == call.arg.highCount
           IN  /\ result[1] \in {"vulnerable", "secure"}
               /\ result[1] = "vulnerable"
                      <=> \/ critical > 0
                          \/ high > 5
                          \/ total # 0 /\ (high > 0 \/ total > 10)
               /\ \A c \in StatusCases :
                      (critical = c[1] /\ high = c[2] /\ total = c[3])
                          => result[1] = c[4]

\* No critical and no high record among 11 has given vulnerable.
C19_Witness ==
    /\ Returned("determineSecurityStatus")
    /\ call.arg = [totalVulnerabilities |-> 11, criticalCount |-> 0, highCount |-> 0]
    /\ result = Some("vulnerable")

(***************************************************************************)
(* Properties of the top records (checked under FetchSpec).                *)
(***************************************************************************)
Rank(severity) ==
    CASE severity = "CRITICAL" -> 0
      [] severity = "HIGH" -> 1
      [] severity = "MEDIUM" -> 2
      [] severity = "LOW" -> 3
      [] severity = "UNKNOWN" -> 4

\* The score a record is ordered by: an absent score counts as 0.
OrderingScore(c) == IF c.cvssScore = undefined THEN 0 ELSE c.cvssScore[1]

\* x is not to come before y: it is less severe, or as severe with a score
\* that is not greater.
NotAhead(x, y) ==
    \/ Rank(x.severity) > Rank(y.severity)
    \/ Rank(x.severity) = Rank(y.severity) /\ OrderingScore(x) <= OrderingScore(y)

Occurrences(s, x) == Cardinality({ i \in DOMAIN s : s[i] = x })

\* C20: topCves holds min(5, n) of the n records, ordered by severity rank
\* and within a severity by descending score, and no record left out is
\* ahead of a record kept.
C20_TopFiveMostSevere ==
    Returned("fetchCvesForTechnology")
        => LET cves == result[1].cves
               top == result[1].topCves
           IN  /\ "data" \in DOMAIN call.arg
                      => Len(cves) = Len(call.arg.data.vulnerabilities)
               /\ Len(top) = (IF Len(cves) < 5 THEN Len(cves) ELSE 5)
               /\ \A i, j \in DOMAIN top : i < j => NotAhead(top[j], top[i])
               /\ \A i \in DOMAIN top :
                      Occurrences(top, top[i]) <= Occurrences(cves, top[i])
               /\ \A i \in DOMAIN cves :
                      Occurrences(top, cves[i]) < Occurrences(cves, cves[i])
                          => \A j \in DOMAIN top : NotAhead(cves[i], top[j])

\* Of six records, the first without severity and the last critical, five
\* are kept, the critical one first and the one without severity left out.
C20_Witness ==
    /\ Returned("fetchCvesForTechnology")
    /\ Len(result[1].cves) = 6
    /\ result[1].cves[1].severity = "UNKNOWN"
    /\ result[1].cves[6].severity = "CRITICAL"
    /\ Len(result[1].topCves) = 5
    /\ result[1].topCves[1].severity = "CRITICAL"
    /\ \A i \in 1..5 : result[1].topCves[i].severity # "UNKNOWN"

\* C21: fetchCvesForTechnology never throws: to a rejected fetch, a 429, any
\* other status that is not ok and a body that does not decode it returns
\* empty cves and topCves and the three counts 0.
C21_FailuresGiveZeroResult ==
    Returned("fetchCvesForTechnology")
        => /\ result[1] # Threw
           /\ (call.arg.kind # "http" \/ ~call.arg.ok)
                  => result[1] = [ cves |-> <<>>, topCves |-> <<>>, totalCount |-> 0,
                                   criticalCount |-> 0, highCount |-> 0 ]

\* A 500 answer has been turned into the zero result.
C21_Witness ==
    /\ Returned("fetchCvesForTechnology")
    /\ call.arg.kind = "http" /\ call.arg.status = 500
    /\ result[1].cves = <<>> /\ result[1].totalCount = 0

(***************************************************************************)
(* Properties of the scan routes (checked under Spec).                     *)
(***************************************************************************)
Malformed(target, configuration) ==
    \/ ~(IsUrl(target) \/ IsDomain(target))
    \/ Len(configuration.checkTypes) = 0

\* C22: a create whose target is neither a URL nor a domain name, or whose
\* check types are empty, is answered 400 and changes nothing: no scan is
\* stored, no completion is scheduled, no finding is created.
C22_RejectedCreateChangesNothing ==
    [][ \A id \in ScanIds :
          ( /\ postReply'[id] # postReply[id]
            /\ Malformed(postReply'[id][1].target, postReply'[id][1].configuration) )
              => /\ postReply'[id][1].status = 400
                 /\ postReply'[id][1].body = undefined
                 /\ UNCHANGED <<scans, findings, postPc, timerPc, findingsData>> ]_vars

\* A create with a domain name and no check type has been answered 400, and
\* there is no scan.
C22_Witness ==
    \E id \in ScanIds :
        /\ postReply[id] # undefined
        /\ postReply[id][1].target = "example.com"
        /\ postReply[id][1].configuration.checkTypes = <<>>
        /\ postReply[id][1].status = 400
        /\ scans = <<>>

\* A scan as create leaves it: pending, without score and completion time.
AsCreated(scan, id, target) ==
    /\ scan.id = id
    /\ scan.target = target
    /\ scan.status = "pending"
    /\ scan.overallScore = undefined
    /\ scan.completedAt = undefined

\* C23: a create that succeeds stores a scan under an id no scan had, pending
\* and with neither score nor completion time, and the 201 answer carries
\* that scan as it was created.
C23_CreatedPending ==
    [][ \A id \in ScanIds :
          /\ (id \in DOMAIN scans' /\ id \notin DOMAIN scans)
                => /\ AsCreated(scans'[id], id, postReply'[id][1].target)
                   /\ \A other \in DOMAIN scans : scans'[other] = scans[other]
          /\ (postReply'[id] # undefined /\ postReply'[id][1].status = 201)
                => /\ id \in DOMAIN scans'
                   /\ postReply'[id][1].body # undefined
                   /\ AsCreated(postReply'[id][1].body[1], id, postReply'[id][1].target) ]_vars

\* A create has been answered 201 with the scan as created, pending, while
\* the stored scan is already running.
C23_Witness ==
    \E id \in DOMAIN scans :
        /\ postReply[id] # undefined
        /\ postReply[id][1].status = 201
        /\ postReply[id][1].body[1].status = "pending"
        /\ scans[id].status = "running"

\* C24: a completion callback that runs without error has persisted every
\* generated finding, in order, and then moves the scan to completed with a
\* completion time and the score of exactly those findings.
C24_CompletionStoresAllAndScores ==
    [][ \A id \in DOMAIN scans :
          (timerPc[id] = "storing" /\ timerPc'[id] = "done")
              => /\ findingsData[id] \in generateFindings(id, scans[id].target,
                                            scans[id].configuration.checkTypes,
                                            scans[id].configuration.scanDepth)
                 /\ findings'[id] = findingsData[id]
                 /\ scans'[id].status = "completed"
                 /\ scans'[id].completedAt = Some(now)
                 /\ scans'[id].overallScore =
                        Some(IF findings'[id] = <<>> THEN 100
                             ELSE Clamp(100 - Deductions(findings'[id]), 0, 100)) ]_vars

\* A deep vulnerability scan has completed with its three findings stored
\* and the score 100 - 48.
C24_Witness ==
    \E id \in DOMAIN scans :
        /\ timerPc[id] = "done"
        /\ scans[id].status = "completed"
        /\ Len(findings[id]) = 3
        /\ scans[id].overallScore = Some(52)
        /\ scans[id].completedAt # undefined

\* C25: when a createFinding call or the final status write of the completion
\* callback throws, the callback leaves the scan failed and without score.
C25_ThrowingCompletionFails ==
    [][ \A id \in DOMAIN scans :
          (timerPc[id] = "catch" /\ timerPc'[id] = "done")
              => /\ scans'[id].status = "failed"
                 /\ scans'[id].overallScore = undefined ]_vars

\* C26: a cancel takes effect only on a scan that is pending or running, and
\* then leaves it cancelled with a completion time; on a scan in a terminal
\* status it changes nothing.
C26_CancelOnlyFromPendingOrRunning ==
    [][ \A id \in DOMAIN scans :
          (scans'[id] # scans[id] /\ scans'[id].status = "cancelled")
              => /\ scans[id].status \in {"pending", "running"}
                 /\ scans'[id].completedAt # undefined ]_vars

\* C27: every finding generated for a scan, and every finding stored for it,
\* carries the scan's id, the scan's target as affected resource, and a
\* category among the scan's requested check types whose catalog holds a
\* template with the finding's title and severity.
FromScan(f, id) ==
    /\ id \in DOMAIN scans
    /\ f.scanId = id
    /\ f.affectedResource = scans[id].target
    /\ \E k \in DOMAIN scans[id].configuration.checkTypes :
         f.category = scans[id].configuration.checkTypes[k]
    /\ \E t \in DOMAIN findingsByCheckType[f.category] :
         /\ findingsByCheckType[f.category][t].title = f.title
         /\ findingsByCheckType[f.category][t].severity = f.severity

C27_FindingsStampedFromRequestedCatalogs ==
    \A id \in ScanIds :
        /\ \A i \in DOMAIN findings[id] : FromScan(findings[id][i], id)
        /\ \A i \in DOMAIN findingsData[id] : FromScan(findingsData[id][i], id)

C27_Witness ==
    \E id \in DOMAIN scans :
        /\ Len(scans[id].configuration.checkTypes) = 2
        /\ scans[id].status = "completed"
        /\ \A k \in 1..2 : \E i \in DOMAIN findings[id] :
             findings[id][i].category = scans[id].configuration.checkTypes[k]

\* C28: every scan that is running eventually has a terminal status, whatever
\* the storage calls of its completion callback do.
C28_StartedScansFinish ==
    \A id \in ScanIds :
        (id \in DOMAIN scans /\ scans[id].status = "running")
            ~> (id \in DOMAIN scans /\ Terminal(scans[id].status))

\* C29: a check that awaits the answer of the external call eventually stops
\* awaiting it, whether or not the answer comes.
C29_ExternalCallIsCutOff ==
    \A p \in Procs : (procPc[p] = "request") ~> (procPc[p] # "request")

\* C30: the finding set of a scan changes only in a step of that scan's
\* completion callback, which appends the next generated finding to it; every
\* step of create, start, cancel and of the technology operations leaves the
\* finding sets as they are.
C30_OnlyCompletionCreatesFindings ==
    [][ /\ \A id \in ScanIds :
              findings'[id] # findings[id]
                  => /\ id \in DOMAIN scans
                     /\ timerPc[id] = "storing"
                     /\ stored'[id] = stored[id] + 1
                     /\ findings'[id] = Append(findings[id], findingsData[id][stored'[id]])
        /\ (postPc' # postPc \/ postReply' # postReply \/ cancelPc' # cancelPc
              \/ cancelId' # cancelId \/ techVars' # techVars)
            => findings' = findings ]_vars

C30_Witness ==
    /\ "s1" \in DOMAIN scans
    /\ scans["s1"].status = "cancelled"
    /\ findings["s1"] # <<>>
    /\ "t2" \notin DOMAIN technologies
    /\ \E p \in RegistryProcs : procPc[p] = "done"

\* C31: a step of the create, the cancel or the completion of one scan leaves
\* the status, score, completion time and findings of every other scan as
\* they are, and all findings stored for a scan carry that scan's id.
StepOf(a) ==
    \/ postPc'[a] # postPc[a]
    \/ timerPc'[a] # timerPc[a]
    \/ stored'[a] # stored[a]
    \/ \E r \in CancelRequests :
         /\ cancelPc[r] = "write"
         /\ cancelId[r] = a
         /\ cancelPc'[r] = "idle"

C31_ScansIndependent ==
    [][ \A a, b \in ScanIds :
          (a # b /\ StepOf(a))
              => /\ findings'[b] = findings[b]
                 /\ b \in DOMAIN scans
                      => /\ scans'[b].status = scans[b].status
                         /\ scans'[b].overallScore = scans[b].overallScore
                         /\ scans'[b].completedAt = scans[b].completedAt
                 /\ \A i \in DOMAIN findings'[a] : findings'[a][i].scanId = a ]_vars

C31_Witness ==
    /\ DOMAIN scans = ScanIds
    /\ scans["s1"].status = "cancelled"
    /\ scans["s2"].status = "completed"
    /\ findings["s1"] # <<>>
    /\ findings["s2"] # <<>>

\* C32: a checkAll that runs alone has at most one technology of its
\* snapshot marked `checking`, and that one is the technology its loop is
\* at; between two technologies and after the loop none is marked; and it
\* has issued at most one external call for each technology its loop has
\* reached, so a call is never begun before the previous technology is done.
Checking(p) ==
    { id \in DOMAIN technologies :
        /\ \E i \in DOMAIN procRun[p].ids : procRun[p].ids[i] = id
        /\ technologies[id].status = "checking" }

Reached(p) == Len(procRun[p].ids) - Len(procList[p]) + 1

C32_OneAtATime ==
    \A p \in RegistryProcs :
        procKind[p] = "all"
            => /\ Cardinality(Checking(p)) <= 1
               /\ procPc[p] \in {"mark", "done"} => Checking(p) = {}
               /\ (Checking(p) # {} /\ procPc[p] # "aborted")
                      => Checking(p) = {Head(procList[p])}
               /\ procRun[p].ids # <<>> => Len(Attempts(p)) <= Reached(p)
               /\ procPc[p] = "request" => Len(Attempts(p)) = procRun[p].marked

C32_Witness ==
    \E p \in RegistryProcs :
        /\ procKind[p] = "all"
        /\ Len(procRun[p].ids) >= 2
        /\ Len(procList[p]) = Len(procRun[p].ids) - 1
        /\ procPc[p] = "request"
        /\ Checking(p) = {Head(procList[p])}
        /\ procRun[p].ids[1] \in DOMAIN technologies
        /\ technologies[procRun[p].ids[1]].lastCheckedAt # undefined

\* C33: a check issues its external call only once it has marked the
\* technology `checking` (in the same step, or before it went to sleep for
\* the rate limit), and its write-back sets the counts, the top list, the
\* status and the time of the check in one step, the status being the status
\* rule applied to the counts of that step.
Issues(p) ==
    /\ Len(requests') = Len(requests) + 1
    /\ requests'[Len(requests')].by = p

WritesBack(p) ==
    /\ procPc[p] = "write"
    /\ procPc'[p] \in {"mark", "done"}
    /\ Head(procList[p]) \in DOMAIN technologies

C33_MarkThenCallThenOneWrite ==
    [][ \A p \in Procs :
          /\ Issues(p)
               => /\ procPc[p] \in {"mark", "sleep"}
                  /\ procRun'[p].marked = Len(AttemptsOf(requests', p))
                  /\ (procPc[p] = "mark" /\ Head(procList[p]) \in DOMAIN technologies)
                        => technologies'[Head(procList[p])].status = "checking"
          /\ WritesBack(p)
               => LET id == Head(procList[p])
                      row == technologies'[id]
                  IN  /\ row.vulnerabilityCount = procResult[p].vulnerabilityCount
                      /\ row.criticalCount = procResult[p].criticalCount
                      /\ row.highCount = procResult[p].highCount
                      /\ row.topCves = procResult[p].topCves
                      /\ row.topCves # undefined
                      /\ row.lastCheckedAt = procResult[p].lastCheckedAt
                      /\ row.lastCheckedAt # undefined
                      /\ row.status = determineSecurityStatus(row.vulnerabilityCount,
                             row.criticalCount, row.highCount) ]_vars

C33_Witness ==
    \E p \in Procs :
        /\ procKind[p] = "one"
        /\ procPc[p] = "done"
        /\ technologies[procRun[p].ids[1]].vulnerabilityCount = 3
        /\ technologies[procRun[p].ids[1]].status = "vulnerable"
        /\ technologies[procRun[p].ids[1]].lastCheckedAt # undefined

\* C34: the score of a completed scan is calculateSecurityScore of the
\* findings stored for that scan.
C34_ScoreMatchesStoredFindings ==
    \A id \in DOMAIN scans :
        scans[id].status = "completed"
            => scans[id].overallScore = Some(calculateSecurityScore(getFindings(id)))

C34_Witness ==
    \E id \in DOMAIN scans :
        /\ scans[id].status = "completed"
        /\ Len(getFindings(id)) >= 2
        /\ scans[id].overallScore # Some(100)
        /\ \E r \in CancelRequests : cancelPc[r] = "write" /\ cancelId[r] = id

\* C35: a completed scan has a score and a completion time, and a pending or
\* running scan has neither.
C35_ScoreAndTimeFollowStatus ==
    \A id \in DOMAIN scans :
        /\ scans[id].status = "completed"
              => scans[id].overallScore # undefined /\ scans[id].completedAt # undefined
        /\ scans[id].status \in {"pending", "running"}
              => scans[id].overallScore = undefined /\ scans[id].completedAt = undefined

\* C36: once every check that was started has returned and no storage call
\* of any of them has thrown, no technology that one of them checked is left
\* `checking`, however the checks overlapped.
Checked(id) ==
    \E p \in Procs : \E i \in DOMAIN procRun[p].ids : procRun[p].ids[i] = id

AllReturned ==
    /\ \E p \in Procs : procPc[p] # "idle"
    /\ \A p \in Procs : procPc[p] \in {"idle", "done"} /\ ~procRun[p].threw

C36_NotCheckingAfterOverlap ==
    AllReturned
        => \A id \in DOMAIN technologies : Checked(id) => technologies[id].status # "checking"

\* Two single checks of one technology, the first of which got its answer
\* before the second issued its call and wrote back after the second did.
C36_Witness ==
    /\ AllReturned
    /\ \A p \in Procs : procKind[p] = "one" /\ procRun[p].ids = <<"t1">>
    /\ Len(requests) = 2
    /\ technologies["t1"].lastCheckedAt # undefined
    /\ technologies["t1"].lastCheckedAt[1] < requests[2].at

\* C37: the write of a cancel sets the status and the completion time of its
\* scan and nothing else: the scan's other fields, its findings, every other
\* scan and every technology are as before.
Cancels(r) ==
    /\ cancelPc[r] = "write"
    /\ cancelPc'[r] = "idle"
    /\ scans' # scans

C37_CancelChangesStatusAndTimeOnly ==
    [][ \A r \in CancelRequests :
          Cancels(r)
              => /\ DOMAIN scans' = DOMAIN scans
                 /\ scans'[cancelId[r]].status = "cancelled"
                 /\ scans'[cancelId[r]].completedAt # undefined
                 /\ \A f \in DOMAIN scans[cancelId[r]] \ {"status", "completedAt"} :
                      scans'[cancelId[r]][f] = scans[cancelId[r]][f]
                 /\ \A id \in DOMAIN scans \ {cancelId[r]} : scans'[id] = scans[id]
                 /\ findings' = findings
                 /\ technologies' = technologies ]_vars

C37_Witness ==
    /\ DOMAIN scans = ScanIds
    /\ scans["s1"].status = "cancelled"
    /\ scans["s1"].completedAt # undefined
    /\ scans["s1"].overallScore # undefined
    /\ findings["s1"] # <<>>
    /\ scans["s2"].status = "running"

\* C38: a technology that a check remembers and that has been deleted stays
\* deleted; a step of a check on a missing technology leaves the registry as
\* it is; and a missing technology never takes a bulk check off its loop:
\* as long as no storage call has thrown the check is in neither catch nor
\* rejected, and when it returns it has marked and requested every
\* technology of its snapshot.
Remembered(id) ==
    \E p \in RegistryProcs : \E i \in DOMAIN procRun[p].ids : procRun[p].ids[i] = id

OnMissing(p) ==
    /\ procPc[p] \in {"mark", "write", "unknown"}
    /\ procPc'[p] # procPc[p]
    /\ Head(procList[p]) \notin DOMAIN technologies

GoesOn(p) ==
    (procKind[p] = "all" /\ ~procRun[p].threw)
        => /\ procPc[p] \notin {"unknown", "aborted"}
           /\ procPc[p] = "done"
                 => /\ procList[p] = <<>>
                    /\ procRun[p].marked = Len(procRun[p].ids)
                    /\ Len(Attempts(p)) = Len(procRun[p].ids)

C38_DeletedStaysDeleted ==
    [][ /\ \A id \in TechIds \cup NewTechIds :
              (Remembered(id) /\ id \notin DOMAIN technologies)
                  => id \notin DOMAIN technologies'
        /\ \A p \in RegistryProcs :
              /\ OnMissing(p) => technologies' = technologies
              /\ GoesOn(p)
              /\ GoesOn(p)' ]_vars

C38_Witness ==
    \E p \in RegistryProcs :
        /\ procKind[p] = "all"
        /\ procPc[p] = "done"
        /\ ~procRun[p].threw
        /\ Len(procRun[p].ids) = 2
        /\ Len(Attempts(p)) = 2
        /\ procRun[p].ids[1] \notin DOMAIN technologies
        /\ procRun[p].ids[2] \in DOMAIN technologies
        /\ technologies[procRun[p].ids[2]].lastCheckedAt # undefined

\* C39: an export is served, or on its way to being served, only when the
\* scan its handler read was completed; the handler answers not-found only
\* for an id without scan and never serves or refuses such an id; a scan read
\* as pending, running, cancelled or failed is not served; and no step of the
\* handler changes a scan, a finding or a technology.
Exported == exportCall # undefined /\ exportCall[1].status \in {0, 200}

C39_ExportOnlyCompleted ==
    [][ /\ Exported
            => /\ exportCall[1].scan # undefined
               /\ exportCall[1].scan[1].status = "completed"
        /\ exportCall' # exportCall
            => /\ scans' = scans
               /\ findings' = findings
               /\ technologies' = technologies
               /\ exportCall'[1].status \in {400, 404}
                    => /\ exportCall'[1].status = 404 <=> exportCall'[1].id \notin DOMAIN scans
                       /\ exportCall'[1].status = 400
                            => scans[exportCall'[1].id].status
                                 \in {"pending", "running", "cancelled", "failed"}
               /\ (exportCall'[1].status \in {0, 200} /\ exportCall'[1].scan # undefined)
                    => exportCall'[1].scan[1].status = "completed"
               /\ exportCall'[1].status = 0
                    => scans[exportCall'[1].id].status = "completed"
               /\ exportCall'[1].status \in {0, 200} => exportCall'[1].scan # undefined ]_vars

C39_Witness ==
    /\ exportCall # undefined
    /\ exportCall[1].status = 200
    /\ exportCall[1].report # undefined
    /\ exportCall[1].report[1] # <<>>
    /\ scans[exportCall[1].id].status = "cancelled"

====
